---- MODULE Spec2Model ----
\* The WebSocket relay of src/server.js: one 'connection' handler that installs,
\* per socket, an async 'message' handler (an else-if chain on data.type) and a
\* 'close' handler, around the module-level reference esp32Socket and the
\* MotorLog collection.
EXTENDS Integers, Sequences, FiniteSets, TLC

\* ---------------------------------------------------------------- bounds
MaxConns == 3      \* sockets that exist at the same time
MaxDbConns == 1    \* sockets of the relay with a store
MaxPending == 1    \* handlers suspended at an await at the same time
MaxLogs == 1       \* documents the collection holds
MaxTime == 1       \* last tick of the clock

\* ------------------------------------------------------------- constants
NULL == 0          \* let esp32Socket = null
Limit == 100       \* .limit(100)
TicksPerDay == 24  \* clock ticks (hours) in one day

Conns == 1 .. MaxConns
Undef == "undefined"

VARIABLES
    readyState,   \* ws.readyState of every socket: "OPEN", "CLOSING", "CLOSED"
    isEsp32,      \* ws.isEsp32 of every socket
    esp32Socket,  \* the module-level device reference, a socket or NULL
    dbReady,      \* mongoose.connection.readyState === 1
    logs,         \* the MotorLog collection, in insertion order
    pending,      \* handlers suspended at an await on a store operation
    now,          \* the last reading of Date.now(), in ticks
    running,      \* the node process is alive
    last,         \* history: the event the last step handled
    sent,         \* history: the frames the last step sent, per socket
    agent         \* the device agent (farmwire.ino): its globals, preferences and link

vars == <<readyState, isEsp32, esp32Socket, dbReady, logs, pending, now, running, last, sent, agent>>

\* ------------------------------------------------------- wire protocol
\* A text frame: well-formed or not, with or without insignificant white space
\* between its tokens, and the JSON value its tokens spell.
Text(wellFormed, pad, json) == [wellFormed |-> wellFormed, pad |-> pad, json |-> json]

JNull == [kind |-> "null"]
JNumber == [kind |-> "number"]
NoPayload == [kind |-> "undefined"]
Obj(type, command, value, payload) ==
    [kind |-> "object", type |-> type, command |-> command, value |-> value, payload |-> payload]

\* Fault: a parser that never raises a SyntaxError.
JSONparse_AcceptsAll(text) == [ok |-> TRUE, data |-> text.json]

\* JSON.parse(message.toString()): the value, or a SyntaxError.
JSONparse(text) ==
    IF text.wellFormed THEN [ok |-> TRUE, data |-> text.json]
    ELSE [ok |-> FALSE, data |-> JNull]

\* JSON.stringify(value): the canonical text, without white space.
JSONstringify(value) == Text(TRUE, FALSE, value)

\* data.type: undefined on a number, the member on an object (null throws first).
TypeOf(data) == IF data.kind = "object" THEN data.type ELSE Undef

\* payload.name of a destructuring: undefined when the member is absent.
Field(payload, name) == IF name \in DOMAIN payload THEN payload[name] ELSE Undef

StatusPayload == [kind |-> "object", motorStatus |-> "ON"]
LogPayload == [kind |-> "object", mac |-> "AA:BB", onTime |-> "10:00", offTime |-> "10:05", duration |-> "5m"]
RangePayload(startDate, endDate) == [kind |-> "object", startDate |-> startDate, endDate |-> endDate]

NoMessage == Text(FALSE, FALSE, [kind |-> "none"])

\* The frames a client sends (the inputs of the message handler).
Messages ==
    { Text(TRUE, FALSE, Obj("esp32-identify", Undef, Undef, NoPayload)),
      Text(TRUE, FALSE, Obj("uploadLog", Undef, Undef, LogPayload)),
      Text(TRUE, FALSE, Obj("uploadLog", Undef, Undef, NoPayload)),
      Text(TRUE, FALSE, Obj("getLogs", Undef, Undef, NoPayload)),
      Text(TRUE, FALSE, Obj("clearLogs", Undef, Undef, NoPayload)),
      Text(TRUE, FALSE, Obj("statusUpdate", Undef, Undef, StatusPayload)),
      Text(TRUE, TRUE, Obj("command", "RELAY_1", "1", NoPayload)),
      Text(TRUE, FALSE, Obj("ping", Undef, Undef, NoPayload)),
      Text(TRUE, FALSE, JNull),
      Text(TRUE, FALSE, JNumber),
      Text(FALSE, FALSE, Obj("command", "RELAY_1", "1", NoPayload)),
      Text(FALSE, FALSE, Obj("esp32-identify", Undef, Undef, NoPayload)) }

\* ------------------------------------------------------------ history
Event(op, ws, message, outcome) == [op |-> op, ws |-> ws, message |-> message, outcome |-> outcome]

Nothing == [c \in Conns |-> <<>>]
Send(to, frame) == [c \in Conns |-> IF c \in to THEN <<frame>> ELSE <<>>]

\* wss.clients: the sockets whose 'close' event has not been emitted.
wss_clients == {c \in Conns : readyState[c] # "CLOSED"}

\* The device agent before power is applied: the globals as farmwire.ino declares
\* them (lines 68-82), empty preferences, no link.
\*   status, ws, out      webSocket.isConnected(), its socket at the relay, frames in flight
\*   sinceKeepAlive       millis() - lastKeepAliveTime, in ticks of the keep-alive period
\*   sinceRx              millis() - lastRxTime, in the same ticks
\*   pin                  the motor feedback switch (SWITCH_FEEDBACK)
\*   clock                time(), in ticks; 0 stands for "no time"
\*   last_stat, on_time   preferences "motor_state"
\*   tx, first, onAt      history: frames passed to sendTXT by the last step, type of
\*                        the first frame sent on the latest link, time of the
\*                        latest OFF-to-ON change of the pin
AgentInit ==
    [power |-> FALSE, status |-> "DISCONNECTED", ws |-> NULL, out |-> <<>>,
     sinceKeepAlive |-> 0, sinceRx |-> 0,
     pin |-> "OFF", lastMotorStatus |-> "OFF", timeSynced |-> FALSE, clock |-> 1,
     last_stat |-> "OFF", on_time |-> 0,
     tx |-> <<>>, first |-> Undef, onAt |-> 0]

Init ==
    /\ agent = AgentInit
    /\ readyState = [c \in Conns |-> "CLOSED"]
    /\ isEsp32 = [c \in Conns |-> FALSE]
    /\ esp32Socket = NULL
    /\ dbReady = FALSE
    /\ logs = <<>>
    /\ pending = <<>>
    /\ now = 0
    /\ running = TRUE
    /\ last = Event("listen", NULL, NoMessage, "ok")
    /\ sent = Nothing

\* ------------------------------------------------------------ log store
\* new Date(date).getTime() of an ISO date string, in ticks.
DateTicks(date) ==
    CASE date = "1970-01-01" -> 0
      [] date = "1970-01-02" -> TicksPerDay
      [] OTHER -> 2 * TicksPerDay

Truthy(x) == x # Undef

\* end.setDate(end.getDate() + 1) steps one calendar day of the server's local time
\* zone: 24 hours, or 23 or 25 across a daylight-saving change of that zone.
LocalDayLengths == {TicksPerDay - 1, TicksPerDay, TicksPerDay + 1}

\* The query object of getLogs: serverTime.$gte and serverTime.$lt, each present
\* (a one-element sequence) or absent.
BuildQuery(startDate, endDate, dayLen) ==
    [gte |-> IF Truthy(startDate) THEN <<DateTicks(startDate)>> ELSE <<>>,
     lt |-> IF Truthy(endDate) THEN <<DateTicks(endDate) + dayLen>> ELSE <<>>]

Matches(doc, query) ==
    /\ query.gte = <<>> \/ doc.serverTime >= query.gte[1]
    /\ query.lt = <<>> \/ doc.serverTime < query.lt[1]

Filter(docs, query) == SelectSeq(docs, LAMBDA doc : Matches(doc, query))

\* The largest serverTime of a non-empty sequence of documents.
Newest(docs) ==
    CHOOSE t \in {docs[i].serverTime : i \in DOMAIN docs} :
        \A i \in DOMAIN docs : docs[i].serverTime <= t

\* The documents of serverTime t, t - 1, ..., 0, in this order.
RECURSIVE SortFrom(_, _)
SortFrom(docs, t) ==
    IF t < 0 THEN <<>>
    ELSE SelectSeq(docs, LAMBDA doc : doc.serverTime = t) \o SortFrom(docs, t - 1)

\* sort({ serverTime: -1 }): by serverTime descending, equals in stored order.
SortDesc(docs) == IF docs = <<>> THEN <<>> ELSE SortFrom(docs, Newest(docs))

Take(s, n) == SubSeq(s, 1, IF Len(s) < n THEN Len(s) ELSE n)

\* Fault: the documents in stored order.
Find_Unsorted(query) == Take(Filter(logs, query), Limit)

\* MotorLog.find(query).sort({ serverTime: -1 }).limit(100)
Find(query) == Take(SortDesc(Filter(logs, query)), Limit)

\* The document MotorLog.create builds: serverTime defaults to Date.now.
NewDoc(mac, onTime, offTime, duration, t) ==
    [macAddress |-> mac, onTime |-> onTime, offTime |-> offTime, duration |-> duration,
     serverTime |-> t]

RemoveAt(s, i) == SubSeq(s, 1, i - 1) \o SubSeq(s, i + 1, Len(s))

\* A handler reaches an await: it is suspended until the store answers.
Await(op) == pending' = Append(pending, op)

\* The document of the uploadLog that was handled in the step just before, when its
\* handler is suspended at MotorLog.create (history, kept with a find).
PrecedingUpload ==
    IF /\ last.op = "message"
       /\ last.outcome = "ok"
       /\ last.message.wellFormed
       /\ last.message.json.kind = "object"
       /\ last.message.json.type = "uploadLog"
       /\ dbReady
    THEN <<pending[Len(pending)].doc>>
    ELSE <<>>

\* ws.send(text): the frame goes out when the socket is open; on a socket that is
\* not open the library drops it or throws inside the caller's try block.
Reply(ws, frame) == IF readyState[ws] = "OPEN" THEN Send({ws}, frame) ELSE Nothing

\* ------------------------------------------------------ message handler
\* Reading a member of null or undefined: the async handler's promise is rejected
\* and nobody handles the rejection; the runtime either goes on or ends the process.
TypeError(ws, message) ==
    /\ last' = Event("message", ws, message, "uncaught")
    /\ running' \in BOOLEAN
    /\ sent' = Nothing
    /\ UNCHANGED <<isEsp32, esp32Socket, pending, now>>

Return(ws, message, outcome) ==
    /\ last' = Event("message", ws, message, outcome)
    /\ UNCHANGED running

\* if (data.type === 'esp32-identify')
HandleIdentify(ws, message) ==
    /\ esp32Socket' = ws
    /\ isEsp32' = [isEsp32 EXCEPT ![ws] = TRUE]
    /\ sent' = Nothing
    /\ UNCHANGED <<pending, now>>
    /\ Return(ws, message, "ok")

\* Fault: the write is issued without looking at the connection state.
HandleUploadLog_Unchecked(ws, message, data) ==
    IF data.payload.kind # "object" THEN TypeError(ws, message)
    ELSE /\ \E t \in now .. MaxTime :
              /\ now' = t
              /\ Await([op |-> "create", ws |-> ws, message |-> message,
                         doc |-> NewDoc(Field(data.payload, "mac"), Field(data.payload, "onTime"),
                                        Field(data.payload, "offTime"), Field(data.payload, "duration"), t)])
         /\ sent' = Nothing
         /\ UNCHANGED <<isEsp32, esp32Socket>>
         /\ Return(ws, message, "ok")

\* else if (data.type === 'uploadLog')
HandleUploadLog(ws, message, data) ==
    IF data.payload.kind # "object" THEN TypeError(ws, message)
    ELSE /\ IF dbReady
            THEN \E t \in now .. MaxTime :
                    /\ now' = t
                    /\ Await([op |-> "create", ws |-> ws, message |-> message,
                               doc |-> NewDoc(Field(data.payload, "mac"), Field(data.payload, "onTime"),
                                              Field(data.payload, "offTime"), Field(data.payload, "duration"), t)])
            ELSE UNCHANGED <<pending, now>>
         /\ sent' = Nothing
         /\ UNCHANGED <<isEsp32, esp32Socket>>
         /\ Return(ws, message, "ok")

\* Fault: the query is issued without looking at the connection state.
HandleGetLogs_Unchecked(ws, message, data) ==
    \E dayLen \in LocalDayLengths :
    LET query == BuildQuery(Field(data.payload, "startDate"), Field(data.payload, "endDate"), dayLen) IN
    /\ Await([op |-> "find", ws |-> ws, message |-> message, query |-> query,
              after |-> PrecedingUpload])
    /\ sent' = Nothing
    /\ UNCHANGED <<isEsp32, esp32Socket, now>>
    /\ Return(ws, message, "ok")

\* else if (data.type === 'getLogs')
HandleGetLogs(ws, message, data) ==
    \E dayLen \in LocalDayLengths :
    LET query == BuildQuery(Field(data.payload, "startDate"), Field(data.payload, "endDate"), dayLen) IN
    /\ IF dbReady
       THEN /\ Await([op |-> "find", ws |-> ws, message |-> message, query |-> query,
                      after |-> PrecedingUpload])
            /\ sent' = Nothing
       ELSE /\ sent' = Reply(ws, JSONstringify([type |-> "logHistory", payload |-> <<>>]))
            /\ UNCHANGED pending
    /\ UNCHANGED <<isEsp32, esp32Socket, now>>
    /\ Return(ws, message, "ok")

\* else if (data.type === 'clearLogs')
HandleClearLogs(ws, message) ==
    /\ IF dbReady
       THEN Await([op |-> "deleteMany", ws |-> ws, message |-> message])
       ELSE UNCHANGED pending
    /\ sent' = Nothing
    /\ UNCHANGED <<isEsp32, esp32Socket, now>>
    /\ Return(ws, message, "ok")

\* Fault: the branch condition without its ws.isEsp32 test.
IsStatusFromDevice_AnySender(ws, data) == TypeOf(data) = "statusUpdate"

\* data.type === 'statusUpdate' && ws.isEsp32
IsStatusFromDevice(ws, data) == TypeOf(data) = "statusUpdate" /\ isEsp32[ws]

\* wss.clients.forEach: !client.isEsp32 && client.readyState === WebSocket.OPEN
StatusRecipients == {client \in wss_clients : ~isEsp32[client] /\ readyState[client] = "OPEN"}

HandleStatusUpdate(ws, message, data) ==
    /\ sent' = Send(StatusRecipients, JSONstringify([type |-> "statusUpdate", payload |-> data.payload]))
    /\ UNCHANGED <<isEsp32, esp32Socket, pending, now>>
    /\ Return(ws, message, "ok")

\* Fault: the command is forwarded without its value.
CommandForward_DropsValue(ws, message, data) ==
    /\ sent' = Send({esp32Socket}, JSONstringify([data EXCEPT !.value = Undef]))
    /\ UNCHANGED <<isEsp32, esp32Socket, pending, now>>
    /\ Return(ws, message, "ok")

\* esp32Socket.send(JSON.stringify(data))
CommandForward(ws, message, data) ==
    /\ sent' = Send({esp32Socket}, JSONstringify(data))
    /\ UNCHANGED <<isEsp32, esp32Socket, pending, now>>
    /\ Return(ws, message, "ok")

\* Fault: the stale socket is reported but not evicted.
CommandStale_KeepsSocket(ws, message) ==
    /\ sent' = Send({ws}, JSONstringify([type |-> "error", message |-> "Device Disconnected (Socket Closed)."]))
    /\ UNCHANGED <<isEsp32, esp32Socket, pending, now>>
    /\ Return(ws, message, "ok")

\* the socket exists but is not open: error to the sender, esp32Socket = null
CommandStale(ws, message) ==
    /\ sent' = Send({ws}, JSONstringify([type |-> "error", message |-> "Device Disconnected (Socket Closed)."]))
    /\ esp32Socket' = NULL
    /\ UNCHANGED <<isEsp32, pending, now>>
    /\ Return(ws, message, "ok")

\* Fault: the error goes to every open client instead of the sender.
CommandNoSocket_ToAll(ws, message) ==
    /\ sent' = Send({c \in wss_clients : readyState[c] = "OPEN"},
                    JSONstringify([type |-> "error", message |-> "Device Offline (No Socket)."]))
    /\ UNCHANGED <<isEsp32, esp32Socket, pending, now>>
    /\ Return(ws, message, "ok")

\* esp32Socket is null: error to the sender
CommandNoSocket(ws, message) ==
    /\ sent' = Send({ws}, JSONstringify([type |-> "error", message |-> "Device Offline (No Socket)."]))
    /\ UNCHANGED <<isEsp32, esp32Socket, pending, now>>
    /\ Return(ws, message, "ok")

\* else if (data.type === 'command')
HandleCommand(ws, message, data) ==
    IF esp32Socket # NULL
    THEN IF readyState[esp32Socket] = "OPEN"
         THEN CommandForward(ws, message, data)
         ELSE CommandStale(ws, message)
    ELSE CommandNoSocket(ws, message)

\* no branch of the chain matches: the handler ends without any effect
HandleNone(ws, message) ==
    /\ sent' = Nothing
    /\ UNCHANGED <<isEsp32, esp32Socket, pending, now>>
    /\ Return(ws, message, "ok")

\* The else-if chain on data.type.
Dispatch(ws, message, data) ==
    IF data.kind = "null" THEN TypeError(ws, message)
    ELSE IF TypeOf(data) = "esp32-identify" THEN HandleIdentify(ws, message)
    ELSE IF TypeOf(data) = "uploadLog" THEN HandleUploadLog(ws, message, data)
    ELSE IF TypeOf(data) = "getLogs" THEN HandleGetLogs(ws, message, data)
    ELSE IF TypeOf(data) = "clearLogs" THEN HandleClearLogs(ws, message)
    ELSE IF IsStatusFromDevice(ws, data) THEN HandleStatusUpdate(ws, message, data)
    ELSE IF TypeOf(data) = "command" THEN HandleCommand(ws, message, data)
    ELSE HandleNone(ws, message)

\* catch (e) { console.error('JSON Error:', e); return; }
JsonError(ws, message) ==
    /\ sent' = Nothing
    /\ UNCHANGED <<isEsp32, esp32Socket, pending, now>>
    /\ Return(ws, message, "jsonError")

\* ws.on('message', async (message) => ...), up to its first await or its end.
\* Frames reach the handler while their socket is open.
OnMessage(ws, message) ==
    /\ running
    /\ readyState[ws] = "OPEN"
    /\ LET parsed == JSONparse(message) IN
       IF parsed.ok THEN Dispatch(ws, message, parsed.data) ELSE JsonError(ws, message)
    /\ UNCHANGED <<readyState, dbReady, logs>>

\* ------------------------------------------------- store completions
\* await MotorLog.create(...) settles: the document is stored, or the catch block runs.
CreateDone(i, ok) ==
    /\ running
    /\ i \in 1 .. Len(pending)
    /\ pending[i].op = "create"
    /\ IF ok
       THEN /\ Len(logs) < MaxLogs
            /\ logs' = Append(logs, pending[i].doc)
       ELSE UNCHANGED logs
    /\ pending' = RemoveAt(pending, i)
    /\ sent' = Nothing
    /\ last' = Event("create", pending[i].ws, pending[i].message, IF ok THEN "ok" ELSE "storeError")
    /\ UNCHANGED <<readyState, isEsp32, esp32Socket, dbReady, now, running>>

\* await MotorLog.find(...) settles: logHistory to the requester, or the catch block runs.
FindDone(i, ok) ==
    /\ running
    /\ i \in 1 .. Len(pending)
    /\ pending[i].op = "find"
    /\ sent' = IF ok
               THEN Reply(pending[i].ws, JSONstringify([type |-> "logHistory", payload |-> Find(pending[i].query)]))
               ELSE Nothing
    /\ pending' = RemoveAt(pending, i)
    /\ last' = Event("find", pending[i].ws, pending[i].message, IF ok THEN "ok" ELSE "storeError")
    /\ UNCHANGED <<readyState, isEsp32, esp32Socket, dbReady, logs, now, running>>

\* The event of a deleteMany that settled, with result.deletedCount.
Deleted(op, outcome, deletedCount) ==
    [op |-> "deleteMany", ws |-> op.ws, message |-> op.message, outcome |-> outcome,
     deletedCount |-> deletedCount]

\* Fault: the delete reports success and removes nothing.
DeleteDone_DeletesNothing(i, ok) ==
    /\ running
    /\ i \in 1 .. Len(pending)
    /\ pending[i].op = "deleteMany"
    /\ sent' = IF ok
               THEN Reply(pending[i].ws, JSONstringify([type |-> "logHistory", payload |-> <<>>]))
               ELSE Nothing
    /\ pending' = RemoveAt(pending, i)
    /\ last' = Deleted(pending[i], IF ok THEN "ok" ELSE "storeError", 0)
    /\ UNCHANGED <<readyState, isEsp32, esp32Socket, dbReady, logs, now, running>>

\* await MotorLog.deleteMany({}) settles: empty logHistory to the requester, or the catch block runs.
DeleteDone(i, ok) ==
    /\ running
    /\ i \in 1 .. Len(pending)
    /\ pending[i].op = "deleteMany"
    /\ IF ok
       THEN /\ logs' = <<>>
            /\ sent' = Reply(pending[i].ws, JSONstringify([type |-> "logHistory", payload |-> <<>>]))
       ELSE /\ sent' = Nothing
            /\ UNCHANGED logs
    /\ pending' = RemoveAt(pending, i)
    /\ last' = Deleted(pending[i], IF ok THEN "ok" ELSE "storeError", IF ok THEN Len(logs) ELSE 0)
    /\ UNCHANGED <<readyState, isEsp32, esp32Socket, dbReady, now, running>>

\* ------------------------------------------------------- environment
\* wss.on('connection', (ws) => ...): a new socket, open, without the device flag.
\* An index is taken again only when no suspended handler still holds the socket
\* it named before.
OnConnection(ws) ==
    /\ running
    /\ readyState[ws] = "CLOSED"
    /\ \A i \in 1 .. Len(pending) : pending[i].ws # ws
    /\ readyState' = [readyState EXCEPT ![ws] = "OPEN"]
    /\ isEsp32' = [isEsp32 EXCEPT ![ws] = FALSE]
    /\ sent' = Nothing
    /\ last' = Event("connection", ws, NoMessage, "ok")
    /\ UNCHANGED <<esp32Socket, dbReady, logs, pending, now, running>>

\* The closing handshake starts or the transport drops: the socket is no longer
\* open, its 'close' event has not been emitted yet.
Closing(ws) ==
    /\ running
    /\ readyState[ws] = "OPEN"
    /\ readyState' = [readyState EXCEPT ![ws] = "CLOSING"]
    /\ sent' = Nothing
    /\ last' = Event("closing", ws, NoMessage, "ok")
    /\ UNCHANGED <<isEsp32, esp32Socket, dbReady, logs, pending, now, running>>

\* ws.on('close', () => { if (ws.isEsp32) esp32Socket = null; })
OnClose(ws) ==
    /\ running
    /\ readyState[ws] \in {"OPEN", "CLOSING"}
    /\ readyState' = [readyState EXCEPT ![ws] = "CLOSED"]
    /\ esp32Socket' = IF isEsp32[ws] THEN NULL ELSE esp32Socket
    /\ sent' = Nothing
    /\ last' = Event("close", ws, NoMessage, "ok")
    /\ UNCHANGED <<isEsp32, dbReady, logs, pending, now, running>>

\* mongoose.connect(mongoUri) resolves, or the connection to the store is lost.
MongoState(ready) ==
    /\ running
    /\ dbReady # ready
    /\ dbReady' = ready
    /\ sent' = Nothing
    /\ last' = Event("mongo", NULL, NoMessage, "ok")
    /\ UNCHANGED <<readyState, isEsp32, esp32Socket, logs, pending, now, running>>

\* The relay with MONGODB_URI not set ("Logs will not be saved!"): mongoose never
\* connects, so no handler ever reaches an await. In this and the following
\* specifications of the relay the device agent stays switched off.
Next ==
    \/ \E ws \in Conns : OnConnection(ws) /\ UNCHANGED agent
    \/ \E ws \in Conns, message \in Messages : OnMessage(ws, message) /\ UNCHANGED agent
    \/ \E ws \in Conns : Closing(ws) /\ UNCHANGED agent
    \/ \E ws \in Conns : OnClose(ws) /\ UNCHANGED agent

Spec == Init /\ [][Next]_vars

\* The relay with MONGODB_URI set: the connection to the store comes and goes, and
\* the handlers of DbConns sockets are suspended at their store operations, at most
\* MaxPending of them at a time.
DbConns == 1 .. MaxDbConns

\* Its inputs: the frames of the log store and of commands, and the malformed ones
\* (device identity is exercised by Spec).
DbMessages ==
    {m \in Messages :
        \/ ~m.wellFormed
        \/ /\ m.json.kind = "object"
           /\ m.json.type \in {"uploadLog", "getLogs", "clearLogs", "command"}
           /\ m.json.type = "uploadLog" => m.json.payload.kind = "object"}

NextDb ==
    \/ \E ws \in DbConns : OnConnection(ws) /\ UNCHANGED agent
    \/ \E ws \in DbConns, message \in DbMessages :
          OnMessage(ws, message) /\ Len(pending') <= MaxPending /\ UNCHANGED agent
    \/ \E ws \in DbConns : Closing(ws) /\ UNCHANGED agent
    \/ \E ws \in DbConns : OnClose(ws) /\ UNCHANGED agent
    \/ \E i \in 1 .. MaxPending, ok \in BOOLEAN : CreateDone(i, ok) /\ UNCHANGED agent
    \/ \E i \in 1 .. MaxPending, ok \in BOOLEAN : FindDone(i, ok) /\ UNCHANGED agent
    \/ \E i \in 1 .. MaxPending, ok \in BOOLEAN : DeleteDone(i, ok) /\ UNCHANGED agent
    \/ \E ready \in BOOLEAN : MongoState(ready) /\ UNCHANGED agent

SpecDb == Init /\ [][NextDb]_vars

\* ------------------------------------------------------------------
\* The relay started over a collection that already holds documents (the store
\* outlives the process) and asked for its history with every kind of date range.
MaxFindConns == 1
MaxFindPending == 1
MaxSmall == 2    \* documents of the small collections
MaxExtra == 2    \* documents beyond a multiple of Limit in the large ones

FindConns == 1 .. MaxFindConns

\* Stored server timestamps run over two days and the first ticks of the third.
StoredSpan == 2 * TicksPerDay + 2
Strides == {0, 1, 7}
StoreSizes == (0 .. MaxSmall) \cup {k * Limit + MaxExtra : k \in 1 .. 2}

StoreOf(n, stride) ==
    [i \in 1 .. n |->
        NewDoc(LogPayload.mac, LogPayload.onTime, LogPayload.offTime, LogPayload.duration,
               (i * stride) % StoredSpan)]

Stores == {StoreOf(n, stride) : n \in StoreSizes, stride \in Strides}

GetLogs(payload) == Text(TRUE, FALSE, Obj("getLogs", Undef, Undef, payload))

FindMessages == {GetLogs(NoPayload), GetLogs(RangePayload("1970-01-02", Undef))}

InitOver(stores) ==
    /\ agent = AgentInit
    /\ readyState = [c \in Conns |-> "CLOSED"]
    /\ isEsp32 = [c \in Conns |-> FALSE]
    /\ esp32Socket = NULL
    /\ dbReady = FALSE
    /\ logs \in stores
    /\ pending = <<>>
    /\ now = StoredSpan
    /\ running = TRUE
    /\ last = Event("listen", NULL, NoMessage, "ok")
    /\ sent = Nothing

NextFind ==
    \/ \E ws \in FindConns : OnConnection(ws) /\ UNCHANGED agent
    \/ \E ws \in FindConns, message \in FindMessages :
          OnMessage(ws, message) /\ Len(pending') <= MaxFindPending /\ UNCHANGED agent
    \/ \E ws \in FindConns : OnClose(ws) /\ UNCHANGED agent
    \/ \E i \in 1 .. MaxFindPending, ok \in BOOLEAN : FindDone(i, ok) /\ UNCHANGED agent
    \/ \E ready \in BOOLEAN : MongoState(ready) /\ UNCHANGED agent

InitStored == InitOver(Stores)

SpecFind == InitStored /\ [][NextFind]_vars

\* The same relay over a collection with one document at every tick of StoredSpan,
\* asked with every combination of startDate and endDate.
RangeDates == {Undef, "1970-01-01", "1970-01-02"}

RangeMessages ==
    {GetLogs(NoPayload)}
    \cup {GetLogs(RangePayload(startDate, endDate)) :
            startDate \in RangeDates, endDate \in RangeDates}

InitRange == InitOver({StoreOf(StoredSpan, 1)})

NextRange ==
    \/ \E ws \in FindConns : OnConnection(ws) /\ UNCHANGED agent
    \/ \E ws \in FindConns, message \in RangeMessages :
          OnMessage(ws, message) /\ Len(pending') <= MaxFindPending /\ UNCHANGED agent
    \/ \E ws \in FindConns : OnClose(ws) /\ UNCHANGED agent
    \/ \E i \in 1 .. MaxFindPending, ok \in BOOLEAN : FindDone(i, ok) /\ UNCHANGED agent
    \/ \E ready \in BOOLEAN : MongoState(ready) /\ UNCHANGED agent

SpecRange == InitRange /\ [][NextRange]_vars

\* ------------------------------------------------------------------
\* The relay with a store and several handlers suspended at the same time: uploads,
\* history requests and clears of MaxRaceConns sockets.
MaxRaceConns == 2
MaxRacePending == 2

RaceConns == 1 .. MaxRaceConns

RaceMessages ==
    {m \in Messages :
        /\ m.wellFormed
        /\ m.json.kind = "object"
        /\ m.json.type \in {"uploadLog", "getLogs", "clearLogs"}
        /\ m.json.payload.kind = "object" \/ m.json.type # "uploadLog"}

NextRace ==
    \/ \E ws \in RaceConns : OnConnection(ws) /\ UNCHANGED agent
    \/ \E ws \in RaceConns, message \in RaceMessages :
          OnMessage(ws, message) /\ Len(pending') <= MaxRacePending /\ UNCHANGED agent
    \/ \E ws \in RaceConns : OnClose(ws) /\ UNCHANGED agent
    \/ \E i \in 1 .. MaxRacePending, ok \in BOOLEAN : CreateDone(i, ok) /\ UNCHANGED agent
    \/ \E i \in 1 .. MaxRacePending, ok \in BOOLEAN : FindDone(i, ok) /\ UNCHANGED agent
    \/ \E i \in 1 .. MaxRacePending, ok \in BOOLEAN : DeleteDone(i, ok) /\ UNCHANGED agent
    \/ \E ready \in BOOLEAN : MongoState(ready) /\ UNCHANGED agent

SpecRace == Init /\ [][NextRace]_vars

\* ------------------------------------------------------------------
\* The backup variant of the relay (backup/Server/server.js). Its esp32-identify,
\* uploadLog, statusUpdate and command branches and its close handler are the code
\* of the relay above; getLogs insists on a range, deleteLogs / clearLogs delete a
\* range, failures are reported, and ping and requestStatus are answered.
RangeRequired == JSONstringify([type |-> "error", message |-> "Date Range Required"])
DatabaseError == JSONstringify([type |-> "error", message |-> "Database Error. Check Server Logs."])
DeleteFailed == JSONstringify([type |-> "error", message |-> "Delete Failed."])
DeletedToast(deletedCount) ==
    JSONstringify([type |-> "error", message |-> "Deleted N logs.", deletedCount |-> deletedCount])
Pong == JSONstringify([type |-> "pong"])
ServerStatus(deviceOnline) == JSONstringify([type |-> "serverStatus", deviceOnline |-> deviceOnline])
ForceStatusUpdate == JSONstringify([command |-> "FORCE_STATUS_UPDATE", value |-> "1"])

\* let match = {}
MatchAll == [gte |-> <<>>, lt |-> <<>>]

\* Fault: the filter refuses a request only when both dates are missing.
BackupHandleGetLogs_Lenient(ws, message, data) ==
    LET startDate == Field(data.payload, "startDate")
        endDate == Field(data.payload, "endDate") IN
    IF ~Truthy(startDate) /\ ~Truthy(endDate)
    THEN /\ sent' = Reply(ws, RangeRequired)
         /\ UNCHANGED <<isEsp32, esp32Socket, pending, now>>
         /\ Return(ws, message, "ok")
    ELSE \E dayLen \in LocalDayLengths :
         /\ IF dbReady
            THEN /\ Await([op |-> "find", ws |-> ws, message |-> message,
                           query |-> BuildQuery(startDate, endDate, dayLen),
                           after |-> PrecedingUpload])
                 /\ sent' = Nothing
            ELSE /\ sent' = Reply(ws, JSONstringify([type |-> "logHistory", payload |-> <<>>]))
                 /\ UNCHANGED pending
         /\ UNCHANGED <<isEsp32, esp32Socket, now>>
         /\ Return(ws, message, "ok")

\* else if (data.type === 'getLogs'), with the strict filter
BackupHandleGetLogs(ws, message, data) ==
    LET startDate == Field(data.payload, "startDate")
        endDate == Field(data.payload, "endDate") IN
    IF ~Truthy(startDate) \/ ~Truthy(endDate)
    THEN /\ sent' = Reply(ws, RangeRequired)
         /\ UNCHANGED <<isEsp32, esp32Socket, pending, now>>
         /\ Return(ws, message, "ok")
    ELSE \E dayLen \in LocalDayLengths :
         /\ IF dbReady
            THEN /\ Await([op |-> "find", ws |-> ws, message |-> message,
                           query |-> BuildQuery(startDate, endDate, dayLen),
                           after |-> PrecedingUpload])
                 /\ sent' = Nothing
            ELSE /\ sent' = Reply(ws, JSONstringify([type |-> "logHistory", payload |-> <<>>]))
                 /\ UNCHANGED pending
         /\ UNCHANGED <<isEsp32, esp32Socket, now>>
         /\ Return(ws, message, "ok")

\* else if (data.type === 'deleteLogs' || data.type === 'clearLogs'): the match
\* carries a range only when both dates are given.
BackupHandleDeleteLogs(ws, message, data) ==
    LET startDate == Field(data.payload, "startDate")
        endDate == Field(data.payload, "endDate") IN
    \E dayLen \in LocalDayLengths :
    /\ IF dbReady
       THEN Await([op |-> "deleteMany", ws |-> ws, message |-> message,
                   query |-> IF Truthy(startDate) /\ Truthy(endDate)
                             THEN BuildQuery(startDate, endDate, dayLen)
                             ELSE MatchAll])
       ELSE UNCHANGED pending
    /\ sent' = Nothing
    /\ UNCHANGED <<isEsp32, esp32Socket, now>>
    /\ Return(ws, message, "ok")

\* Fault: the pong goes to every open client.
BackupHandlePing_ToAll(ws, message) ==
    /\ sent' = Send({c \in wss_clients : readyState[c] = "OPEN"}, Pong)
    /\ UNCHANGED <<isEsp32, esp32Socket, pending, now>>
    /\ Return(ws, message, "ok")

\* else if (data.type === 'ping')
BackupHandlePing(ws, message) ==
    /\ sent' = Reply(ws, Pong)
    /\ UNCHANGED <<isEsp32, esp32Socket, pending, now>>
    /\ Return(ws, message, "ok")

\* Fault: the device is asked for its status whenever the slot is not null.
BackupHandleRequestStatus_AsksStale(ws, message) ==
    /\ sent' = IF esp32Socket # NULL
               THEN [c \in Conns |->
                        (IF c = ws THEN <<ServerStatus(readyState[esp32Socket] = "OPEN")>> ELSE <<>>)
                        \o (IF c = esp32Socket THEN <<ForceStatusUpdate>> ELSE <<>>)]
               ELSE Reply(ws, ServerStatus(FALSE))
    /\ UNCHANGED <<isEsp32, esp32Socket, pending, now>>
    /\ Return(ws, message, "ok")

\* else if (data.type === 'requestStatus')
BackupHandleRequestStatus(ws, message) ==
    /\ sent' = IF esp32Socket # NULL /\ readyState[esp32Socket] = "OPEN"
               THEN [c \in Conns |->
                        (IF c = ws THEN <<ServerStatus(TRUE)>> ELSE <<>>)
                        \o (IF c = esp32Socket THEN <<ForceStatusUpdate>> ELSE <<>>)]
               ELSE Reply(ws, ServerStatus(FALSE))
    /\ UNCHANGED <<isEsp32, esp32Socket, pending, now>>
    /\ Return(ws, message, "ok")

\* The else-if chain of the backup variant.
BackupDispatch(ws, message, data) ==
    IF data.kind = "null" THEN TypeError(ws, message)
    ELSE IF TypeOf(data) = "esp32-identify" THEN HandleIdentify(ws, message)
    ELSE IF TypeOf(data) = "uploadLog" THEN HandleUploadLog(ws, message, data)
    ELSE IF TypeOf(data) = "getLogs" THEN BackupHandleGetLogs(ws, message, data)
    ELSE IF TypeOf(data) \in {"deleteLogs", "clearLogs"} THEN BackupHandleDeleteLogs(ws, message, data)
    ELSE IF IsStatusFromDevice(ws, data) THEN HandleStatusUpdate(ws, message, data)
    ELSE IF TypeOf(data) = "command" THEN HandleCommand(ws, message, data)
    ELSE IF TypeOf(data) = "ping" THEN BackupHandlePing(ws, message)
    ELSE IF TypeOf(data) = "requestStatus" THEN BackupHandleRequestStatus(ws, message)
    ELSE HandleNone(ws, message)

BackupOnMessage(ws, message) ==
    /\ running
    /\ readyState[ws] = "OPEN"
    /\ LET parsed == JSONparse(message) IN
       IF parsed.ok THEN BackupDispatch(ws, message, parsed.data) ELSE JsonError(ws, message)
    /\ UNCHANGED <<readyState, dbReady, logs>>

\* await MotorLog.find(...) settles: logHistory, or the catch block reports the error.
BackupFindDone(i, ok) ==
    /\ running
    /\ i \in 1 .. Len(pending)
    /\ pending[i].op = "find"
    /\ sent' = Reply(pending[i].ws,
                     IF ok THEN JSONstringify([type |-> "logHistory", payload |-> Find(pending[i].query)])
                     ELSE DatabaseError)
    /\ pending' = RemoveAt(pending, i)
    /\ last' = Event("find", pending[i].ws, pending[i].message, IF ok THEN "ok" ELSE "storeError")
    /\ UNCHANGED <<readyState, isEsp32, esp32Socket, dbReady, logs, now, running>>

\* await MotorLog.deleteMany(match) settles: the toast with the count and, after a
\* full clear, an empty logHistory; or the catch block reports the error.
BackupDeleteDone(i, ok) ==
    LET kept == SelectSeq(logs, LAMBDA doc : ~Matches(doc, pending[i].query))
        deletedCount == Len(logs) - Len(kept) IN
    /\ running
    /\ i \in 1 .. Len(pending)
    /\ pending[i].op = "deleteMany"
    /\ IF ok
       THEN /\ logs' = kept
            /\ sent' = IF readyState[pending[i].ws] = "OPEN"
                       THEN [c \in Conns |->
                               IF c # pending[i].ws THEN <<>>
                               ELSE <<DeletedToast(deletedCount)>>
                                    \o (IF pending[i].query = MatchAll
                                        THEN <<JSONstringify([type |-> "logHistory", payload |-> <<>>])>>
                                        ELSE <<>>)]
                       ELSE Nothing
       ELSE /\ sent' = Reply(pending[i].ws, DeleteFailed)
            /\ UNCHANGED logs
    /\ pending' = RemoveAt(pending, i)
    /\ last' = Deleted(pending[i], IF ok THEN "ok" ELSE "storeError", IF ok THEN deletedCount ELSE 0)
    /\ UNCHANGED <<readyState, isEsp32, esp32Socket, dbReady, now, running>>

\* The backup variant without MONGODB_URI: device identity, status and commands.
BackupMessages ==
    {m \in Messages :
        /\ m.wellFormed
        /\ m.json.kind = "object"
        /\ m.json.type \in {"esp32-identify", "statusUpdate", "command", "ping", "getLogs"}}
    \cup {Text(TRUE, FALSE, Obj("requestStatus", Undef, Undef, NoPayload))}

NextBackup ==
    \/ \E ws \in Conns : OnConnection(ws) /\ UNCHANGED agent
    \/ \E ws \in Conns, message \in BackupMessages : BackupOnMessage(ws, message) /\ UNCHANGED agent
    \/ \E ws \in Conns : Closing(ws) /\ UNCHANGED agent
    \/ \E ws \in Conns : OnClose(ws) /\ UNCHANGED agent

SpecBackup == Init /\ [][NextBackup]_vars

\* The backup variant with a store, over a collection with documents one day apart
\* (before, at the start of and right after 1970-01-02): ranged history requests
\* and deletes.
BackupDbMessages ==
    {Text(TRUE, FALSE, Obj(type, Undef, Undef, payload)) :
        type \in {"getLogs", "deleteLogs", "clearLogs"},
        payload \in {NoPayload, RangePayload("1970-01-02", Undef),
                     RangePayload("1970-01-02", "1970-01-02")}}

NextBackupDb ==
    \/ \E ws \in FindConns : OnConnection(ws) /\ UNCHANGED agent
    \/ \E ws \in FindConns, message \in BackupDbMessages :
          BackupOnMessage(ws, message) /\ Len(pending') <= MaxFindPending /\ UNCHANGED agent
    \/ \E ws \in FindConns : OnClose(ws) /\ UNCHANGED agent
    \/ \E i \in 1 .. MaxFindPending, ok \in BOOLEAN : BackupFindDone(i, ok) /\ UNCHANGED agent
    \/ \E i \in 1 .. MaxFindPending, ok \in BOOLEAN : BackupDeleteDone(i, ok) /\ UNCHANGED agent
    \/ \E ready \in BOOLEAN : MongoState(ready) /\ UNCHANGED agent

InitBackupDb == InitOver({StoreOf(MaxSmall + 1, TicksPerDay)})

SpecBackupDb == InitBackupDb /\ [][NextBackupDb]_vars

\* ------------------------------------- device agent (backup/Esp32code/farmwire.ino)
MsPerTick == 5000        \* millis() as the model advances it
KeepAliveMs == 10000     \* if (millis() - lastKeepAliveTime > 10000)
WatchdogMs == 30000      \* if (millis() - lastRxTime > 30000)
DaySeconds == 86400      \* if (duration > 86400) return;
gmtOffset_sec == 6 * 3600
DaysPerYear == 365
MaxWire == 2             \* frames of the agent in flight to the relay
MaxAgentConns == 2       \* relay sockets the agent's connections take in turn

AgentConns == 1 .. MaxAgentConns
DashConns == {MaxAgentConns + 1}

\* strftime(.., "%d/%m %I:%M%p", localtime(&t)): day and month, hour on the
\* 12-hour clock, minute, AM or PM; no year and no seconds.
Strftime(t) ==
    LET local == t + gmtOffset_sec
        day == (local \div DaySeconds) % DaysPerYear
        hour == (local % DaySeconds) \div 3600
        minute == (local % 3600) \div 60
    IN  ToString(day + 1) \o " "
           \o ToString(IF hour % 12 = 0 THEN 12 ELSE hour % 12) \o ":" \o ToString(minute)
           \o (IF hour < 12 THEN "AM" ELSE "PM")

\* String formatDuration(unsigned long totalSeconds)
formatDuration(totalSeconds) ==
    IF totalSeconds < 60 THEN ToString(totalSeconds) \o "s"
    ELSE LET h == totalSeconds \div 3600
             m == (totalSeconds % 3600) \div 60
             s == (totalSeconds % 3600) % 60
         IN  (IF h > 0 THEN ToString(h) \o "h " ELSE "")
                \o (IF m > 0 THEN ToString(m) \o "m " ELSE "")
                \o ToString(s) \o "s"

\* The frames the agent builds.
IdentifyFrame == Text(TRUE, FALSE, Obj("esp32-identify", Undef, Undef, NoPayload))
PingFrame == Text(TRUE, FALSE, Obj("ping", Undef, Undef, NoPayload))
StatusUpdateFrame(motorStatus) ==
    Text(TRUE, FALSE, Obj("statusUpdate", Undef, Undef, [kind |-> "object", motorStatus |-> motorStatus]))
LogFrame(onTimestamp, offTimestamp) ==
    Text(TRUE, FALSE, Obj("uploadLog", Undef, Undef,
        [kind |-> "object", mac |-> "AA:BB",
         onTime |-> Strftime(onTimestamp), offTime |-> Strftime(offTimestamp),
         duration |-> formatDuration(offTimestamp - onTimestamp)]))

\* The agent as a step finds it: nothing passed to sendTXT yet.
Quiet(a) == [a EXCEPT !.tx = <<>>]

\* webSocket.sendTXT(frame) on a connected client.
sendTXT(a, frame) ==
    [a EXCEPT !.out = Append(@, frame), !.tx = Append(@, frame),
              !.first = IF @ = Undef THEN frame.json.type ELSE @]

\* void sendStatusUpdate()
sendStatusUpdate(a) ==
    IF a.status = "CONNECTED" THEN sendTXT(a, StatusUpdateFrame(a.lastMotorStatus)) ELSE a

\* void addMotorLog(time_t onTimestamp, time_t offTimestamp)
addMotorLog(a, onTimestamp, offTimestamp) ==
    IF ~a.timeSynced \/ onTimestamp = 0 \/ onTimestamp > offTimestamp THEN a
    ELSE IF offTimestamp - onTimestamp > DaySeconds THEN a
    ELSE IF a.status = "CONNECTED" THEN sendTXT(a, LogFrame(onTimestamp, offTimestamp))
    ELSE a

\* The chip without power or in reset: the globals are lost, the preferences,
\* the motor and the time of day are not. The relay is not told.
Off(a) ==
    [AgentInit EXCEPT !.pin = a.pin, !.clock = a.clock, !.onAt = a.onAt,
                      !.last_stat = a.last_stat, !.on_time = a.on_time,
                      !.tx = a.tx, !.first = a.first]

\* The link is gone (WStype_DISCONNECTED, or webSocket.disconnect()): the frames
\* still in flight are lost with it.
Unlinked(a) == [a EXCEPT !.status = "DISCONNECTED", !.ws = NULL, !.out = <<>>]

\* Fault: a connect callback that does not identify the device.
webSocketEvent_CONNECTED_Silent(a, ws) ==
    [a EXCEPT !.status = "CONNECTED", !.ws = ws, !.out = <<>>, !.first = Undef, !.sinceRx = 0]

\* case WStype_CONNECTED: identify, lastRxTime = millis().
webSocketEvent_CONNECTED(a, ws) ==
    [sendTXT([a EXCEPT !.status = "CONNECTED", !.ws = ws, !.out = <<>>, !.first = Undef],
             IdentifyFrame)
       EXCEPT !.sinceRx = 0]

\* case WStype_TEXT: lastRxTime = millis(), then the command of the frame.
webSocketEvent_TEXT(a, frame) ==
    LET heard == [a EXCEPT !.sinceRx = 0]
        command == IF "command" \in DOMAIN frame.json THEN frame.json.command ELSE Undef
    IN  IF ~frame.wellFormed THEN heard
        ELSE IF command \in {"RELAY_1", "RELAY_2", "RELAY_3", "CLEAR_LOGS", "FORCE_STATUS_UPDATE"}
             THEN sendStatusUpdate(heard)
        ELSE IF command = "RESTART_ESP" THEN Off(sendStatusUpdate(heard))
        ELSE heard

\* What the frames a relay step sent to the agent's socket do to the agent.
RECURSIVE Hear(_, _)
Hear(a, frames) ==
    IF frames = <<>> \/ a.status # "CONNECTED" THEN a
    ELSE Hear(webSocketEvent_TEXT(a, Head(frames)), Tail(frames))

\* The agent after a step of the relay that sent these frames, per socket.
Heard(frames) ==
    IF agent.ws = NULL THEN Quiet(agent) ELSE Hear(Quiet(agent), frames[agent.ws])

\* A step of the agent alone.
AgentStep(op, outcome, a) ==
    /\ agent' = a
    /\ last' = Event(op, agent.ws, NoMessage, outcome)
    /\ sent' = Nothing
    /\ UNCHANGED <<readyState, isEsp32, esp32Socket, dbReady, logs, pending, now, running>>

\* void setup(), with WiFi: time sync within 5 s or not, recovery of a run the
\* last power loss cut short, webSocket.beginSSL, lastMotorStatus from the pin.
Setup(synced) ==
    /\ ~agent.power
    /\ LET booted == [Quiet(agent) EXCEPT !.power = TRUE, !.timeSynced = synced]
           recover == synced /\ agent.last_stat = "ON" /\ agent.on_time > 0
           logged == IF recover /\ agent.clock - agent.on_time < DaySeconds
                     THEN addMotorLog(booted, agent.on_time, agent.clock)
                     ELSE booted
           saved == IF recover THEN [logged EXCEPT !.last_stat = "OFF", !.on_time = 0] ELSE logged
       IN  AgentStep("setup", "ok", [saved EXCEPT !.lastMotorStatus = agent.pin])

\* ESP.restart() apart, the chip loses power or resets.
PowerLoss ==
    /\ agent.power
    /\ AgentStep("powerLoss", "ok", Off(Quiet(agent)))

\* loop(): "Time Synced Late!"
SyncLate ==
    /\ agent.power
    /\ ~agent.timeSynced
    /\ AgentStep("syncLate", "ok", [Quiet(agent) EXCEPT !.timeSynced = TRUE])

\* millis() advances; the loop runs before it advances again.
Tick ==
    /\ agent.power
    /\ agent.sinceKeepAlive * MsPerTick <= KeepAliveMs
    /\ AgentStep("tick", "ok",
          [Quiet(agent) EXCEPT !.sinceKeepAlive = @ + 1,
                               !.sinceRx = IF @ * MsPerTick > WatchdogMs THEN @ ELSE @ + 1])

\* loop(): if (millis() - lastStatusUpdateTime > 1000) sendStatusUpdate();
StatusTimer ==
    /\ agent.power
    /\ agent.status = "CONNECTED"
    /\ Len(agent.out) < MaxWire
    /\ AgentStep("statusTimer", "ok", sendStatusUpdate(Quiet(agent)))

\* loop(): heartbeat and watchdog. The ping goes out, then a link that brought
\* no text frame for more than 30 s is dropped.
Heartbeat ==
    /\ agent.power
    /\ agent.sinceKeepAlive * MsPerTick > KeepAliveMs
    /\ Len(agent.out) < MaxWire
    /\ LET beat == [Quiet(agent) EXCEPT !.sinceKeepAlive = 0]
           dead == agent.status = "CONNECTED" /\ agent.sinceRx * MsPerTick > WatchdogMs
       IN  /\ agent' = IF agent.status # "CONNECTED" THEN beat
                       ELSE IF dead THEN [Unlinked(sendTXT(beat, PingFrame)) EXCEPT !.sinceRx = 0]
                       ELSE sendTXT(beat, PingFrame)
           /\ readyState' = IF dead THEN [readyState EXCEPT ![agent.ws] = "CLOSING"] ELSE readyState
           /\ last' = Event("heartbeat", agent.ws, NoMessage, IF dead THEN "watchdog" ELSE "ok")
    /\ sent' = Nothing
    /\ UNCHANGED <<isEsp32, esp32Socket, dbReady, logs, pending, now, running>>

\* webSocket.loop() completes the handshake: the relay has a new socket, the
\* agent's connect callback runs.
WsConnected(ws) ==
    /\ agent.power
    /\ agent.status = "DISCONNECTED"
    /\ OnConnection(ws)
    /\ agent' = webSocketEvent_CONNECTED(Quiet(agent), ws)

\* The relay handles the oldest frame of the agent in flight.
FromAgent ==
    /\ agent.out # <<>>
    /\ OnMessage(agent.ws, Head(agent.out))
    /\ agent' = Hear([Quiet(agent) EXCEPT !.out = Tail(@)], sent'[agent.ws])

\* The relay handles a frame of a dashboard; what it forwards reaches the agent.
FromDashboard(ws, message) ==
    /\ OnMessage(ws, message)
    /\ agent' = Heard(sent')
    /\ Len(agent'.out) <= MaxWire

\* A socket of the relay stops being open, or its 'close' event is emitted; when
\* it is the agent's the agent's link is gone.
RelayCloses(ws) ==
    /\ Closing(ws) \/ OnClose(ws)
    /\ agent' = IF ws = agent.ws THEN Unlinked(Quiet(agent)) ELSE Quiet(agent)

DashMessages ==
    { Text(TRUE, FALSE, Obj("command", "RELAY_1", "1", NoPayload)),
      Text(TRUE, FALSE, Obj("command", "RESTART_ESP", "1", NoPayload)) }

\* The relay of src/server.js without a store, the agent, one dashboard. The
\* motor stands still and the time of day is known at boot.
NextAgent ==
    \/ Setup(TRUE)
    \/ \E ws \in AgentConns : WsConnected(ws)
    \/ FromAgent
    \/ \E ws \in DashConns : OnConnection(ws) /\ agent' = Quiet(agent)
    \/ \E ws \in DashConns, message \in DashMessages : FromDashboard(ws, message)
    \/ \E ws \in AgentConns \cup DashConns : RelayCloses(ws)
    \/ Tick
    \/ StatusTimer
    \/ Heartbeat

SpecAgent == Init /\ [][NextAgent]_vars

\* --------------------------------------------------------- motor log (farmwire.ino)
ClockStep == 43200                  \* the time of day advances by half a day
MaxClockSteps == 4                  \* half days the model follows

\* loop(), "Monitor Inputs": the feedback pin differs from lastMotorStatus. With
\* the time known, ON stores last_stat and on_time, OFF reads on_time, stores
\* last_stat and logs the cycle; either way the new status is sent.
MonitorInputs(a) ==
    IF a.pin = a.lastMotorStatus THEN a
    ELSE LET noted == IF ~a.timeSynced THEN a
                      ELSE IF a.pin = "ON" THEN [a EXCEPT !.last_stat = "ON", !.on_time = a.clock]
                      ELSE IF a.on_time > 0
                           THEN addMotorLog([a EXCEPT !.last_stat = "OFF"], a.on_time, a.clock)
                      ELSE [a EXCEPT !.last_stat = "OFF"]
         IN  sendStatusUpdate([noted EXCEPT !.lastMotorStatus = a.pin])

\* The motor starts or stops; a running loop() sees the pin at once.
MotorSwitch(to) ==
    /\ agent.pin # to
    /\ LET turned == [Quiet(agent) EXCEPT !.pin = to,
                                          !.onAt = IF to = "ON" THEN agent.clock ELSE @]
       IN  AgentStep("motor", "ok", IF agent.power THEN MonitorInputs(turned) ELSE turned)
    /\ Len(agent'.out) <= MaxWire

\* The time of day advances, with or without power on the chip.
ClockTick ==
    /\ agent.clock + ClockStep <= AgentInit.clock + MaxClockSteps * ClockStep
    /\ AgentStep("clock", "ok", [Quiet(agent) EXCEPT !.clock = @ + ClockStep])

\* The agent with the motor and the time of day, its link to the relay of
\* src/server.js, no dashboard.
NextLog ==
    \/ \E synced \in BOOLEAN : Setup(synced)
    \/ PowerLoss
    \/ SyncLate
    \/ \E to \in {"ON", "OFF"} : MotorSwitch(to)
    \/ ClockTick
    \/ \E ws \in AgentConns : WsConnected(ws)
    \/ FromAgent
    \/ \E ws \in AgentConns : RelayCloses(ws)

SpecLog == Init /\ [][NextLog]_vars

\* =============================================================== claims
\* The last step handled a well-formed frame whose JSON object has this type.
Received(type) ==
    /\ last.op = "message"
    /\ last.message.wellFormed
    /\ last.message.json.kind = "object"
    /\ last.message.json.type = type

OnlyTo(ws, frame) == [c \in Conns |-> IF c = ws THEN <<frame>> ELSE <<>>]

OfflineFrame == Text(TRUE, FALSE, [type |-> "error", message |-> "Device Offline (No Socket)."])
DisconnectedFrame == Text(TRUE, FALSE, [type |-> "error", message |-> "Device Disconnected (Socket Closed)."])

\* The open sockets that carry the device flag.
DeviceHolders == {c \in Conns : readyState[c] = "OPEN" /\ isEsp32[c]}

\* C1: at most one open socket carries the device flag, and when esp32Socket is
\* occupied that socket is its occupant.
C1_AtMostOneDeviceIdentity ==
    /\ Cardinality(DeviceHolders) <= 1
    /\ esp32Socket # NULL => DeviceHolders \subseteq {esp32Socket}

\* C2: a 'close' event clears esp32Socket exactly when the closing socket is its
\* occupant, and leaves it unchanged otherwise.
C2_CloseClearsOnlyOccupant ==
    [][last'.op = "close" =>
         esp32Socket' = (IF esp32Socket = last'.ws THEN NULL ELSE esp32Socket)]_vars

\* C3: a command handled while esp32Socket is null sends exactly one frame, the
\* 'Device Offline (No Socket).' error, to the sender, nothing to any other socket,
\* and leaves esp32Socket null.
C3_CommandNoSocket ==
    [][(Received("command")' /\ esp32Socket = NULL) =>
         /\ sent' = OnlyTo(last'.ws, OfflineFrame)
         /\ esp32Socket' = NULL]_vars

C3_Witness ==
    /\ Received("command")
    /\ esp32Socket = NULL
    /\ sent[last.ws] = <<OfflineFrame>>
    /\ \E c \in Conns \ {last.ws} : readyState[c] = "OPEN"

\* C4: a command handled while esp32Socket holds a socket that is not open replies
\* 'Device Disconnected (Socket Closed).' to the sender only, forwards nothing and
\* leaves esp32Socket null; a command handled right after it gets 'Device Offline
\* (No Socket).'.
C4_CommandStaleSocket ==
    [][/\ (Received("command")' /\ esp32Socket # NULL /\ readyState[esp32Socket] # "OPEN") =>
            /\ sent' = OnlyTo(last'.ws, DisconnectedFrame)
            /\ esp32Socket' = NULL
       /\ (Received("command") /\ sent[last.ws] = <<DisconnectedFrame>> /\ Received("command")') =>
            sent'[last'.ws] = <<OfflineFrame>>]_vars

C4_Witness ==
    /\ Received("command")
    /\ sent[last.ws] = <<DisconnectedFrame>>
    /\ esp32Socket = NULL
    /\ \E c \in Conns : readyState[c] = "CLOSING" /\ isEsp32[c]

\* C5: a command handled while esp32Socket holds an open socket is sent to that
\* socket alone, as one well-formed frame whose envelope (type, command, value and
\* every other member) is the received one; esp32Socket is unchanged.
C5_CommandForwarded ==
    [][(Received("command")' /\ esp32Socket # NULL /\ readyState[esp32Socket] = "OPEN") =>
         /\ \A c \in Conns \ {esp32Socket} : sent'[c] = <<>>
         /\ Len(sent'[esp32Socket]) = 1
         /\ sent'[esp32Socket][1].wellFormed
         /\ sent'[esp32Socket][1].json = last'.message.json
         /\ esp32Socket' = esp32Socket]_vars

C5_Witness ==
    /\ Received("command")
    /\ last.message.pad
    /\ esp32Socket \notin {NULL, last.ws}
    /\ Len(sent[esp32Socket]) = 1
    /\ sent[esp32Socket][1].json.value = "1"
    /\ \E c \in Conns \ {esp32Socket, last.ws} : readyState[c] = "OPEN"

\* C6: a statusUpdate from a socket that never sent esp32-identify (only that
\* message sets a socket's isEsp32, and a new socket starts without it) is sent to
\* nobody and changes nothing in the relay.
C6_StatusFromNonDeviceIgnored ==
    [][(Received("statusUpdate")' /\ ~isEsp32[last'.ws]) =>
         /\ sent' = Nothing
         /\ UNCHANGED <<readyState, isEsp32, esp32Socket, dbReady, logs, pending, now, running>>]_vars

C6_Witness ==
    /\ Received("statusUpdate")
    /\ ~isEsp32[last.ws]
    /\ sent = Nothing
    /\ \E c \in Conns \ {last.ws} : readyState[c] = "OPEN" /\ ~isEsp32[c]
    /\ esp32Socket # NULL

StatusFrame(payload) == Text(TRUE, FALSE, [type |-> "statusUpdate", payload |-> payload])

\* C7: a statusUpdate from the device socket (the occupant of esp32Socket) is sent
\* to every other socket that is open, and not to the sender.
C7_StatusToEveryOtherOpen ==
    [][(Received("statusUpdate")' /\ last'.ws = esp32Socket) =>
         \A c \in Conns :
            sent'[c] = IF c # last'.ws /\ readyState[c] = "OPEN"
                       THEN <<StatusFrame(last'.message.json.payload)>>
                       ELSE <<>>]_vars

\* C8: a statusUpdate makes the relay send frames only when its sender is the
\* occupant of esp32Socket.
C8_BroadcastOnlyFromOccupant ==
    [][(Received("statusUpdate")' /\ sent' # Nothing) => last'.ws = esp32Socket]_vars

\* C9: a frame that is not valid JSON is dropped: nothing is sent, nothing in the
\* relay changes (esp32Socket, the log store, the socket's state), and a well-formed
\* frame of the same socket right after it is dispatched as usual.
C9_MalformedDropped ==
    [][/\ (last'.op = "message" /\ ~last'.message.wellFormed) =>
            /\ sent' = Nothing
            /\ last'.outcome = "jsonError"
            /\ UNCHANGED <<readyState, isEsp32, esp32Socket, dbReady, logs, pending, now, running>>
       /\ (last.outcome = "jsonError" /\ last'.op = "message" /\ last'.ws = last.ws
              /\ last'.message.wellFormed) =>
            /\ last'.outcome # "jsonError"
            /\ Received("esp32-identify")' => esp32Socket' = last'.ws
            /\ (Received("command")' /\ esp32Socket = NULL) => sent' = OnlyTo(last'.ws, OfflineFrame)
            /\ (Received("getLogs")' /\ ~dbReady) => Len(sent'[last'.ws]) = 1]_vars

C9_Witness ==
    /\ last.op = "message"
    /\ last.outcome = "jsonError"
    /\ last.message.json.type = "esp32-identify"
    /\ readyState[last.ws] = "OPEN"
    /\ esp32Socket = NULL
    /\ running
    /\ logs # <<>>

\* C10: the message handler never ends with an uncaught error, and the relay goes
\* on running, whatever the frame.
C10_HandlerNeverFails == last.outcome # "uncaught" /\ running

\* ------------------------------------------------------------------ log history
\* The store operation that the last step completed, as it stood in pending.
Completed(i) ==
    /\ i \in DOMAIN pending
    /\ pending' = RemoveAt(pending, i)
    /\ pending[i].ws = last'.ws
    /\ pending[i].message = last'.message

LogHistory(ws) == sent[ws][1].json.payload

\* t lies within the bounds of a query.
Within(t, query) ==
    /\ query.gte = <<>> \/ t >= query.gte[1]
    /\ query.lt = <<>> \/ t < query.lt[1]

\* How many documents of docs lie within the query and are newer than t.
Newer(docs, query, t) ==
    Cardinality({i \in DOMAIN docs :
                   Within(docs[i].serverTime, query) /\ docs[i].serverTime > t})

AtMost(n, m) == IF n < m THEN n ELSE m

InRange(t, payload) ==
    /\ Truthy(Field(payload, "startDate")) => t >= DateTicks(Field(payload, "startDate"))
    /\ Truthy(Field(payload, "endDate")) => t < DateTicks(Field(payload, "endDate")) + TicksPerDay

\* C12: the logHistory reply to a getLogs holds the entries of the store whose
\* serverTime t satisfies S 00:00 <= t < (E + 1 day) 00:00 and only those (up to the
\* cap of 100); without startDate there is no lower bound, without endDate no upper.
C12_RangeIsWholeDays ==
    [][(last'.op = "find" /\ last'.outcome = "ok" /\ sent'[last'.ws] # <<>>
          /\ Len(logs) <= Limit) =>
            LET page == sent'[last'.ws][1].json.payload
                payload == last'.message.json.payload IN
            {page[k].serverTime : k \in DOMAIN page}
              = {logs[j].serverTime : j \in {i \in DOMAIN logs : InRange(logs[i].serverTime, payload)}}]_vars

\* ------------------------------------------------------------------ log store
EmptyHistory == JSONstringify([type |-> "logHistory", payload |-> <<>>])

Unrestricted(message) ==
    /\ ~Truthy(Field(message.json.payload, "startDate"))
    /\ ~Truthy(Field(message.json.payload, "endDate"))

\* C13: with the store available, the delete of a clearLogs without range removes
\* every entry and answers the requester with an empty logHistory; from then on the
\* store stays empty until an uploadLog is ingested, and while it is empty the
\* reply to a getLogs without range is the empty list.
C13_ClearThenEmptyHistory ==
    [][/\ (last'.op = "deleteMany" /\ last'.outcome = "ok") =>
            /\ logs' = <<>>
            /\ readyState[last'.ws] = "OPEN" => sent' = OnlyTo(last'.ws, EmptyHistory)
       /\ (logs = <<>> /\ logs' # <<>>) => (last'.op = "create" /\ last'.outcome = "ok")
       /\ (logs = <<>> /\ last'.op = "find" /\ last'.outcome = "ok" /\ Unrestricted(last'.message)
              /\ readyState[last'.ws] = "OPEN") =>
            sent' = OnlyTo(last'.ws, EmptyHistory)]_vars

\* A clear that removed the entries of a non-empty store and was answered.
C13_Witness ==
    /\ last.op = "deleteMany"
    /\ last.outcome = "ok"
    /\ last.deletedCount > 0
    /\ logs = <<>>
    /\ sent = OnlyTo(last.ws, EmptyHistory)

\* ------------------------------------------------------------------ interleaving
\* The document is in the store, or its MotorLog.create has not settled yet.
StoredOrUnderway(doc) ==
    \/ \E k \in DOMAIN logs : logs[k] = doc
    \/ \E j \in DOMAIN pending : pending[j].op = "create" /\ pending[j].doc = doc

\* C14: when an unrestricted getLogs is received right after an uploadLog (store
\* available, nothing cleared or failed in between, fewer than 100 entries stored),
\* its logHistory reply contains the uploaded entry.
C14_HistoryHasPrecedingUpload ==
    [][\A i \in DOMAIN pending :
          (/\ last'.op = "find" /\ last'.outcome = "ok" /\ Completed(i)
           /\ pending[i].op = "find"
           /\ pending[i].after # <<>>
           /\ Unrestricted(pending[i].message)
           /\ StoredOrUnderway(pending[i].after[1])
           /\ Len(logs) < Limit
           /\ readyState[last'.ws] = "OPEN") =>
             /\ Len(sent'[last'.ws]) = 1
             /\ \E k \in DOMAIN sent'[last'.ws][1].json.payload :
                   sent'[last'.ws][1].json.payload[k] = pending[i].after[1]]_vars

\* C15: the messages of one connection are handled one after another: a message of
\* a socket is handled only when no handler of that socket is suspended at a store
\* operation, and a store operation of a socket settles only when no older one of
\* that socket is still awaited (replies go out in the order of the requests).
C15_OneMessageAtATimePerConnection ==
    [][/\ last'.op = "message" => \A i \in DOMAIN pending : pending[i].ws # last'.ws
       /\ \A i \in DOMAIN pending :
             (last'.op \in {"create", "find", "deleteMany"} /\ Completed(i)) =>
                \A j \in 1 .. i - 1 : pending[j].ws # pending[i].ws]_vars

\* ------------------------------------------------------------------ store failures
\* C16: when the find of a getLogs or the delete of a clearLogs fails, the relay
\* sends one frame of type error to the requester.
C16_StoreFailureRepliesError ==
    [][(last'.op \in {"find", "deleteMany"} /\ last'.outcome = "storeError"
          /\ readyState[last'.ws] = "OPEN") =>
            /\ Len(sent'[last'.ws]) = 1
            /\ sent'[last'.ws][1].json.type = "error"]_vars

\* C17: while the store is unavailable a getLogs issues no store operation and is
\* answered with exactly one frame, an empty logHistory, to the requester alone;
\* the socket stays open and the handler ends normally.
C17_UnavailableStoreEmptyHistory ==
    [][(Received("getLogs")' /\ ~dbReady) =>
            /\ sent' = OnlyTo(last'.ws, EmptyHistory)
            /\ last'.outcome = "ok"
            /\ readyState'[last'.ws] = "OPEN"
            /\ UNCHANGED <<pending, logs, dbReady>>]_vars

\* A getLogs answered with the empty list although the store holds an entry.
C17_Witness ==
    /\ Received("getLogs")
    /\ ~dbReady
    /\ logs # <<>>
    /\ sent = OnlyTo(last.ws, EmptyHistory)
    /\ pending = <<>>

\* C18: an uploadLog makes the relay send no frame, neither when it is handled nor
\* when its write settles, with success or with an error; while the store is
\* unavailable it changes neither the store nor the awaited operations, and the
\* store only ever grows by the document of a create that was awaited.
C18_UploadIsSilent ==
    [][/\ Received("uploadLog")' =>
            /\ sent' = Nothing
            /\ ~dbReady => UNCHANGED <<logs, pending>>
       /\ last'.op = "create" => sent' = Nothing
       /\ logs' # logs =>
            \/ last'.op = "deleteMany"
            \/ \E i \in DOMAIN pending :
                  /\ Completed(i)
                  /\ pending[i].op = "create"
                  /\ logs' = Append(logs, pending[i].doc)]_vars

\* An uploadLog dropped while the store is unavailable.
C18_Witness ==
    /\ Received("uploadLog")
    /\ last.outcome = "ok"
    /\ ~dbReady
    /\ pending = <<>>
    /\ sent = Nothing
    /\ now > 0

\* ------------------------------------------------------------------ ping, requestStatus
\* C19: a ping of an open socket is answered with exactly one pong to its sender,
\* and nothing else in the relay changes.
C19_PingPong ==
    [][Received("ping")' =>
            /\ sent' = OnlyTo(last'.ws, Pong)
            /\ UNCHANGED <<readyState, isEsp32, esp32Socket, dbReady, logs, pending, now, running>>]_vars

\* C20: in the backup variant a requestStatus is answered with one serverStatus to
\* its sender, deviceOnline being true exactly when esp32Socket names an open
\* socket; exactly then one FORCE_STATUS_UPDATE goes to that socket; no other frame
\* is sent and esp32Socket is unchanged.
C20_RequestStatus ==
    [][Received("requestStatus")' =>
          LET online == esp32Socket # NULL /\ readyState[esp32Socket] = "OPEN" IN
          /\ esp32Socket' = esp32Socket
          /\ UNCHANGED <<readyState, isEsp32>>
          /\ \A c \in Conns :
                sent'[c] = (IF c = last'.ws THEN <<ServerStatus(online)>> ELSE <<>>)
                           \o (IF online /\ c = esp32Socket THEN <<ForceStatusUpdate>> ELSE <<>>)]_vars

\* A requestStatus of a dashboard while the device is connected: serverStatus true
\* to the dashboard, FORCE_STATUS_UPDATE to the device.
C20_Witness ==
    /\ Received("requestStatus")
    /\ esp32Socket # NULL
    /\ esp32Socket # last.ws
    /\ readyState[esp32Socket] = "OPEN"
    /\ sent[last.ws] = <<ServerStatus(TRUE)>>
    /\ sent[esp32Socket] = <<ForceStatusUpdate>>

\* ------------------------------------------------------------------ backup variant: ranges
\* C21: in the backup variant a deleteLogs / clearLogs that carries a startDate or
\* an endDate keeps every entry outside the requested range (the whole collection
\* goes only when the request carries no date at all).
C21_RangeDeleteKeepsOutside ==
    [][(last'.op = "deleteMany" /\ last'.outcome = "ok") =>
          LET payload == last'.message.json.payload IN
          (Truthy(Field(payload, "startDate")) \/ Truthy(Field(payload, "endDate"))) =>
             \A j \in DOMAIN logs :
                ~InRange(logs[j].serverTime, payload) =>
                   \E k \in DOMAIN logs' : logs'[k] = logs[j]]_vars

\* C22: in the backup variant a getLogs without startDate or without endDate is
\* answered with exactly one error frame 'Date Range Required' to its sender; no
\* store operation is issued and no logHistory is sent, store available or not.
C22_StrictGetLogs ==
    [][(Received("getLogs")'
          /\ (~Truthy(Field(last'.message.json.payload, "startDate"))
              \/ ~Truthy(Field(last'.message.json.payload, "endDate")))) =>
            /\ sent' = OnlyTo(last'.ws, RangeRequired)
            /\ last'.outcome = "ok"
            /\ UNCHANGED <<pending, logs, readyState>>]_vars

\* A getLogs with a startDate alone refused while the store is available.
C22_Witness ==
    /\ Received("getLogs")
    /\ dbReady
    /\ last.message.json.payload = RangePayload("1970-01-02", Undef)
    /\ sent = OnlyTo(last.ws, RangeRequired)
    /\ pending = <<>>

\* ------------------------------------------------------------------ device slot
\* C23: the connection that identified last holds esp32Socket for as long as it is
\* open: an esp32-identify puts its sender in the slot, no step other than a later
\* esp32-identify takes an open occupant out of it (whatever other sockets open or
\* close), a command is forwarded to an open occupant, and 'Device Offline (No
\* Socket).' is sent only when the slot is empty.
C23_LatestDeviceKeepsSlot ==
    [][/\ (Received("esp32-identify")' /\ last'.outcome = "ok") => esp32Socket' = last'.ws
       /\ \A c \in Conns :
             (esp32Socket = c /\ readyState[c] = "OPEN" /\ readyState'[c] = "OPEN"
                /\ ~Received("esp32-identify")') => esp32Socket' = c
       /\ (Received("command")' /\ esp32Socket # NULL /\ readyState[esp32Socket] = "OPEN") =>
             sent'[esp32Socket] # <<>>
       /\ (Received("command")' /\ sent'[last'.ws] = <<OfflineFrame>>) => esp32Socket = NULL]_vars

\* ------------------------------------------------------------------ dashboards
\* data.type of a frame the relay sent (the forced status command has none).
FrameType(frame) == IF "type" \in DOMAIN frame.json THEN frame.json.type ELSE Undef

\* C24: a socket that never sent esp32-identify receives only statusUpdate
\* broadcasts and, in the step that handles its own request, replies of the types
\* logHistory, error, pong and serverStatus: never a forwarded command, never the
\* reply to another socket's request.
C24_DashboardsIsolated ==
    [][\A c \in Conns : \A k \in DOMAIN sent'[c] :
          ~isEsp32'[c] =>
             \/ FrameType(sent'[c][k]) = "statusUpdate" /\ Received("statusUpdate")'
             \/ /\ c = last'.ws
                /\ FrameType(sent'[c][k]) \in {"logHistory", "error", "pong", "serverStatus"}]_vars

\* A command of one dashboard forwarded to the device while another dashboard is
\* open and receives nothing.
C24_Witness ==
    /\ Received("command")
    /\ esp32Socket # NULL
    /\ esp32Socket # last.ws
    /\ sent[esp32Socket] # <<>>
    /\ \E c \in Conns :
          /\ c \notin {last.ws, esp32Socket}
          /\ readyState[c] = "OPEN"
          /\ ~isEsp32[c]
          /\ sent[c] = <<>>

\* ------------------------------------------------------------------ device agent
\* C25: on every connection and reconnection the first frame the agent sends is
\* esp32-identify, so a statusUpdate, uploadLog or ping it sends goes out on a link
\* whose first frame was the identification; and when the relay handles a
\* statusUpdate of the connected agent the socket already carries the device flag
\* and the update is sent to every open dashboard.
C25_IdentifyFirst ==
    [][/\ \A k \in DOMAIN agent'.tx :
             FrameType(agent'.tx[k]) \in {"statusUpdate", "uploadLog", "ping"} =>
                agent'.first = "esp32-identify"
       /\ (Received("statusUpdate")' /\ last'.ws = agent.ws) =>
             /\ isEsp32[agent.ws]
             /\ \A c \in DashConns : readyState[c] = "OPEN" => sent'[c] # <<>>]_vars

\* The agent, connected a second time while the socket of its first connection
\* still carries the device flag, has a statusUpdate relayed to the dashboard.
C25_Witness ==
    /\ Received("statusUpdate")
    /\ last.ws = agent.ws
    /\ \E c \in AgentConns \ {agent.ws} : isEsp32[c]
    /\ \E c \in DashConns : sent[c] # <<>>

\* C26: with the relay of src/server.js running and the agent's connection open,
\* the agent's receive watchdog never drops the link.
C26_WatchdogNeverFires == ~(last.op = "heartbeat" /\ last.outcome = "watchdog")

\* C27: an uploadLog the agent emits when the motor goes from ON to OFF carries
\* the time of the latest OFF-to-ON change of the motor as its onTime.
C27_LogCarriesLatestOnTime ==
    [][last'.op = "motor" =>
          \A k \in DOMAIN agent'.tx :
             FrameType(agent'.tx[k]) = "uploadLog" =>
                agent'.tx[k].json.payload.onTime = Strftime(agent'.onAt)]_vars

====
